---- MODULE Spec2Model ----
(***************************************************************************)
(* Configuration resolution of ajarv/cfg-demo: the provider chain, the     *)
(* structural walker, the coercion setters, the date/time placeholder      *)
(* expander (package config, provider file), Init and the config-file      *)
(* loader (package config, configuration file) and the run-once main.      *)
(*                                                                         *)
(* A Go string is a sequence of one-character strings (<<>> is "");        *)
(* provider keys, which are only ever compared, are TLA+ strings.          *)
(***************************************************************************)
EXTENDS Integers, Sequences, FiniteSets, TLC

VARIABLES
    env,                  \* the process environment: key -> string ("" = unset)
    store,                \* DefaultMapProvider.store
    extra,                \* the store of an application-made MapProvider
    dataProviders,        \* the provider chain, highest priority first
    defaultConfiguration, \* package variable defaultConfiguration
    configurationData,    \* package variable configurationData
    file,                 \* what ./config.json is on disk
    crashed,              \* the process died of a run-time panic
    now,                  \* the wall clock read by time.Now()
    logLevel,             \* the default logger's level
    sample,               \* a record of the application's own, walked directly
    log,                  \* the chain calls made so far, in order
    call,                 \* the last call made: its name
    arg,                  \* ... its arguments
    ret,                  \* ... what it returned
    pre,                  \* ... the record it was given, as it was before
    prev,                 \* the call before it: its name, arguments and result
    nops                  \* calls made so far

vars == <<env, store, extra, dataProviders, defaultConfiguration,
          configurationData, file, crashed, now, logLevel, sample, log,
          call, arg, ret, pre, prev, nops>>

----------------------------------------------------------------------------
(* Characters and strings *)

Digits == {"0", "1", "2", "3", "4", "5", "6", "7", "8", "9"}

Lower == {"a", "b", "c", "d", "e", "f", "g", "h", "i", "j", "k", "l", "m",
          "n", "o", "p", "q", "r", "s", "t", "u", "v", "w", "x", "y", "z"}

Upper == {"A", "B", "C", "D", "E", "F", "G", "H", "I", "J", "K", "L", "M",
          "N", "O", "P", "Q", "R", "S", "T", "U", "V", "W", "X", "Y", "Z"}

\* the regexp class \w
WordChars == Digits \cup Lower \cup Upper \cup {"_"}

\* s[i], or "" past the end of s
At(s, i) == IF i >= 1 /\ i <= Len(s) THEN s[i] ELSE ""

DigitVal(c) ==
    CASE c = "0" -> 0 [] c = "1" -> 1 [] c = "2" -> 2 [] c = "3" -> 3
      [] c = "4" -> 4 [] c = "5" -> 5 [] c = "6" -> 6 [] c = "7" -> 7
      [] c = "8" -> 8 [] c = "9" -> 9

\* the first index >= i of s whose character is outside class (Len(s)+1 if none)
RECURSIVE SkipClass(_, _, _)
SkipClass(s, i, class) ==
    IF i <= Len(s) /\ s[i] \in class THEN SkipClass(s, i + 1, class) ELSE i

\* strings.Split(s, sep) for a one-character sep
RECURSIVE SplitFrom(_, _, _, _)
SplitFrom(s, sep, i, cur) ==
    IF i > Len(s) THEN <<cur>>
    ELSE IF s[i] = sep THEN <<cur>> \o SplitFrom(s, sep, i + 1, <<>>)
    ELSE SplitFrom(s, sep, i + 1, Append(cur, s[i]))

Split(s, sep) == SplitFrom(s, sep, 1, <<>>)

\* strings.Replace(s, old, new, -1) for a non-empty old
RECURSIVE Replace(_, _, _)
Replace(s, old, new) ==
    IF Len(s) < Len(old) THEN s
    ELSE IF SubSeq(s, 1, Len(old)) = old
         THEN new \o Replace(SubSeq(s, Len(old) + 1, Len(s)), old, new)
         ELSE <<s[1]>> \o Replace(Tail(s), old, new)

\* the value of a string of digits
RECURSIVE DigitsValue(_, _)
DigitsValue(s, acc) ==
    IF s = <<>> THEN acc ELSE DigitsValue(Tail(s), 10 * acc + DigitVal(s[1]))

\* strconv.ParseInt(s, 10, 64): the value and whether it failed; 0 on a syntax
\* error.  The inputs of this model stay far below 2^63, so the range error
\* (which clamps) does not arise.
ParseInt(s) ==
    LET signed == At(s, 1) \in {"+", "-"}
        body   == IF signed THEN Tail(s) ELSE s
        ok     == body # <<>> /\ \A i \in 1..Len(body) : body[i] \in Digits
        mag    == IF ok THEN DigitsValue(body, 0) ELSE 0
    IN  [val |-> IF At(s, 1) = "-" THEN -mag ELSE mag, err |-> ~ok]

----------------------------------------------------------------------------
(* The placeholder expander *)

\* an offset that may be signed either way, (?:-|\+|)\d*
SkipSegPlus(s, p) == SkipClass(s, IF At(s, p) \in {"-", "+"} THEN p + 1 ELSE p, Digits)

\* one offset of the pattern, (?:-|)\d* : the index after it
SkipSeg(s, p) == SkipClass(s, IF At(s, p) = "-" THEN p + 1 ELSE p, Digits)

\* the pattern \{\{(\w+\:(?:-|)\d*,(?:-|)\d*,(?:-|)\d*)\}\} matched at index i
\* of s: the index of the match's last character, 0 when it does not match.
\* Every class of the pattern is disjoint from the character that follows it,
\* so the match at i is unique.
MatchEnd(s, i) ==
    IF At(s, i) # "{" \/ At(s, i + 1) # "{" THEN 0
    ELSE LET w == SkipClass(s, i + 2, WordChars) IN
         IF w = i + 2 \/ At(s, w) # ":" THEN 0
         ELSE LET a == SkipSeg(s, w + 1) IN
              IF At(s, a) # "," THEN 0
              ELSE LET b == SkipSeg(s, a + 1) IN
                   IF At(s, b) # "," THEN 0
                   ELSE LET c == SkipSeg(s, b + 1) IN
                        IF At(s, c) = "}" /\ At(s, c + 1) = "}" THEN c + 1 ELSE 0

\* pattern.FindAllStringSubmatch(s, -1): the leftmost non-overlapping matches,
\* each <<match[0], match[1]>>
RECURSIVE FindAllStringSubmatch(_, _)
FindAllStringSubmatch(s, i) ==
    IF i > Len(s) THEN <<>>
    ELSE LET e == MatchEnd(s, i) IN
         IF e = 0 THEN FindAllStringSubmatch(s, i + 1)
         ELSE <<<<SubSeq(s, i, e), SubSeq(s, i + 2, e - 2)>>>>
              \o FindAllStringSubmatch(s, e + 1)

\* time.Now().AddDate(y, m, d).Format("2006-01-02") and
\* time.Now().Add(h, m, s).Format("15:04:05"): the literal is kept symbolic, one
\* element naming the clock reading and the offsets it was computed from.
FormatOffset(unit, clock, values) ==
    <<unit \o "@" \o ToString(clock) \o "+" \o ToString(values[1]) \o ","
           \o ToString(values[2]) \o "," \o ToString(values[3])>>

\* the body of the loop over matches
ExpandMatch(clock, data, match) ==
    LET tags == Split(match[2], ":") IN
    IF Len(tags) # 2 THEN data
    ELSE LET valueStrings == Split(tags[2], ",") IN
         IF Len(valueStrings) # 3 THEN data
         ELSE LET values == [k \in 1..3 |-> ParseInt(valueStrings[k]).val] IN
              CASE tags[1] = <<"d", "a", "t", "e">> ->
                     Replace(data, match[1], FormatOffset("date", clock, values))
                [] tags[1] = <<"t", "i", "m", "e">> ->
                     Replace(data, match[1], FormatOffset("time", clock, values))
                [] OTHER -> data

RECURSIVE ExpandMatches(_, _, _, _)
ExpandMatches(clock, data, matches, k) ==
    IF k > Len(matches) THEN data
    ELSE ExpandMatches(clock, ExpandMatch(clock, data, matches[k]), matches, k + 1)

\* parseDateTimeString(data) when time.Now() reads clock
parseDateTimeString(clock, data) ==
    ExpandMatches(clock, data, FindAllStringSubmatch(data, 1), 1)

----------------------------------------------------------------------------
(* Keys and providers *)

LOG_LEVEL == "LOG_LEVEL"
BRANCH == "BRANCH"
BUILD_NUMBER == "BUILD_NUMBER"
COMMIT == "COMMIT"
VERSION == "VERSION"

Keys == {LOG_LEVEL, BRANCH, BUILD_NUMBER, COMMIT, VERSION}

\* the providers there are: &EnvironmentProvider{}, DefaultMapProvider and one
\* MapProvider the application makes
EnvironmentProvider == "EnvironmentProvider"
DefaultMapProvider == "DefaultMapProvider"
ExtraMapProvider == "ExtraMapProvider"

Providers == {EnvironmentProvider, DefaultMapProvider, ExtraMapProvider}

\* What the walk reads besides the record: the provider chain, what each
\* provider holds, and the clock.  The operators below take it as w.
World ==
    [dataProviders |-> dataProviders, env |-> env, store |-> store,
     extra |-> extra, now |-> now]

\* KeyValueProvider.Get: os.Getenv(key), or m.store[key] ("" when absent)
Get(w, prov, key) ==
    CASE prov = EnvironmentProvider -> w.env[key]
      [] prov = DefaultMapProvider -> w.store[key]
      [] prov = ExtraMapProvider -> w.extra[key]

\* MapProvider.Set on a store
MapSet(m, key, value) == [m EXCEPT ![key] = value]

\* dataProviders as the package initialises it
InitialProviders == <<EnvironmentProvider, DefaultMapProvider>>

RECURSIVE getValueFrom(_, _, _, _)
getValueFrom(w, key, envDefault, i) ==
    IF i > Len(w.dataProviders) THEN envDefault
    ELSE LET v == Get(w, w.dataProviders[i], key) IN
         IF v # <<>> THEN v ELSE getValueFrom(w, key, envDefault, i + 1)

\* the loop run from the lowest priority up
RECURSIVE getValueFromEnd(_, _, _, _)
getValueFromEnd(w, key, envDefault, i) ==
    IF i < 1 THEN envDefault
    ELSE LET v == Get(w, w.dataProviders[i], key) IN
         IF v # <<>> THEN v ELSE getValueFromEnd(w, key, envDefault, i - 1)

getValueDefaultReversed(w, key, envDefault) ==
    getValueFromEnd(w, key, envDefault, Len(w.dataProviders))

getValueDefault(w, key, envDefault) == getValueFrom(w, key, envDefault, 1)

----------------------------------------------------------------------------
(* Record types: what reflect reports of each struct type *)

ConfigPkg == "grail/sysinfra/cfg/config"

\* a field: its name, its env and default tags, the kind and name of its type,
\* the type's PkgPath ("" for a predeclared or an unnamed type), whether the
\* field is exported, whether it is embedded
Fld(name, envTag, defaultTag, kind, type, pkgPath, exported, embedded) ==
    [name |-> name, env |-> envTag, def |-> defaultTag, kind |-> kind,
     type |-> type, pkgPath |-> pkgPath, exported |-> exported,
     embedded |-> embedded]

StringFld(name, envTag, defaultTag) ==
    Fld(name, envTag, defaultTag, "string", "string", "", TRUE, FALSE)

buildDataFields ==
    << StringFld("Version", VERSION, <<"1", ".", "3">>),
       StringFld("Commit", COMMIT, <<>>),
       StringFld("Branch", BRANCH, <<>>),
       StringFld("BuildNumber", BUILD_NUMBER, <<>>) >>

BuildFields ==
    << Fld("buildData", "", <<>>, "struct", "buildData", ConfigPkg, FALSE, TRUE) >>

ConfigurationFields ==
    << StringFld("LogLevel", LOG_LEVEL, <<>>),
       Fld("Build", "", <<>>, "struct", "Build", ConfigPkg, TRUE, FALSE) >>


\* How deep the records of the application's own type nest
MaxNest == 6

\* The application's own record type, walked through ApplyExternalConfig: the
\* field shapes walkStruct tells apart.  Sample is the top-level record;
\* Sample.Child is a chain Level1, Level2, ... of nested named records.
LevelName(d) == "Level" \o ToString(d)

LevelFields(d) ==
    << StringFld("Val", BUILD_NUMBER, <<>>) >>
    \o (IF d < MaxNest
        THEN << Fld("Next", "", <<>>, "struct", LevelName(d + 1), ConfigPkg, TRUE, FALSE) >>
        ELSE << >>)

SampleFields ==
    << StringFld("Name", VERSION, <<"d">>),
       StringFld("Number", BUILD_NUMBER, <<>>),
       StringFld("Note", "", <<>>),
       Fld("secret", COMMIT, <<>>, "string", "string", "", FALSE, FALSE),
       Fld("inner", "", <<>>, "struct", "Inner", ConfigPkg, FALSE, FALSE),
       Fld("base", "", <<>>, "struct", "base", ConfigPkg, FALSE, TRUE),
       Fld("Anon", "", <<>>, "struct", "", "", TRUE, FALSE),
       Fld("Bound", BRANCH, <<>>, "struct", "Inner", ConfigPkg, TRUE, FALSE),
       Fld("Child", "", <<>>, "struct", LevelName(1), ConfigPkg, TRUE, FALSE) >>

InnerFields == << StringFld("Tag", BRANCH, <<>>) >>

baseFields == << StringFld("ID", LOG_LEVEL, <<>>) >>

AnonFields == << StringFld("X", BRANCH, <<>>) >>

\* reflect.Type.Field(i) for i = 1..NumField() of the struct type named t
\* (the unnamed struct type is "")
StructFields(t) ==
    CASE t = "Configuration" -> ConfigurationFields
      [] t = "Build" -> BuildFields
      [] t = "buildData" -> buildDataFields
      [] t = "Sample" -> SampleFields
      [] t = "Inner" -> InnerFields
      [] t = "base" -> baseFields
      [] t = "" -> AnonFields
      [] OTHER -> LevelFields(CHOOSE d \in 1..MaxNest : LevelName(d) = t)

\* a value of struct type t whose string fields all hold fill
RECURSIVE NewRecord(_, _)
NewRecord(t, fill) ==
    LET fs == StructFields(t)
        at(n) == CHOOSE i \in 1..Len(fs) : fs[i].name = n
    IN  [n \in {fs[i].name : i \in 1..Len(fs)} |->
            IF fs[at(n)].kind = "struct" THEN NewRecord(fs[at(n)].type, fill)
            ELSE fill]

----------------------------------------------------------------------------
(* The coercion registry *)

IntKinds == {"int", "int8", "int16", "int32", "int64"}
UintKinds == {"uint", "uint8", "uint16", "uint32", "uint64"}

\* strconv.ParseBool
ParseBool(s) ==
    LET isTrue == s \in {<<"1">>, <<"t">>, <<"T">>, <<"T", "R", "U", "E">>,
                         <<"t", "r", "u", "e">>, <<"T", "r", "u", "e">>}
        isFalse == s \in {<<"0">>, <<"f">>, <<"F">>, <<"F", "A", "L", "S", "E">>,
                          <<"f", "a", "l", "s", "e">>, <<"F", "a", "l", "s", "e">>}
    IN  [val |-> isTrue, err |-> ~(isTrue \/ isFalse)]

\* strconv.ParseUint(s, 10, 64), below 2^64
ParseUint(s) ==
    LET ok == s # <<>> /\ \A i \in 1..Len(s) : s[i] \in Digits
    IN  [val |-> IF ok THEN DigitsValue(s, 0) ELSE 0, err |-> ~ok]

\* the width in bits of an 8- or 16-bit integer kind; 0 for the kinds of 32
\* bits and more, which hold every integer this model can denote (below 2^31)
Width(kind) ==
    CASE kind \in {"int8", "uint8"} -> 8
      [] kind \in {"int16", "uint16"} -> 16
      [] OTHER -> 0

\* reflect.Value.SetInt / SetUint: x is stored in the field's own width
SetInt(kind, x) ==
    IF Width(kind) = 0 THEN x
    ELSE LET m == 2 ^ Width(kind) IN ((x + m \div 2) % m) - m \div 2

SetUint(kind, x) == IF Width(kind) = 0 THEN x ELSE x % (2 ^ Width(kind))

\* setters[kind](field, value): the field's new value.  Float32 and Float64
\* have a setter too (strconv.ParseFloat); no field of this model is a float.
Setter(w, kind, field, value) ==
    CASE kind = "bool" ->
           IF ParseBool(value).err THEN field ELSE ParseBool(value).val
      [] kind \in IntKinds ->
           IF ParseInt(value).err THEN field ELSE SetInt(kind, ParseInt(value).val)
      [] kind \in UintKinds ->
           IF ParseUint(value).err THEN field ELSE SetUint(kind, ParseUint(value).val)
      [] kind = "string" -> parseDateTimeString(w.now, value)
      [] OTHER -> field   \* setter == nil: log.Warnf, nothing set

\* setValue without its CanSet guard
setValueUnguarded(w, field, fieldType, canSet, value) ==
    Setter(w, fieldType.kind, field, value)

\* setValue(field, fieldType, value): the field's new value; canSet is
\* field.IsValid() && field.CanSet()
setValue(w, field, fieldType, canSet, value) ==
    IF ~canSet THEN field ELSE Setter(w, fieldType.kind, field, value)

----------------------------------------------------------------------------
(* The structural walker *)

isStruct(ft) == ft.pkgPath # "" /\ ft.kind = "struct"

\* whether walkStruct recurses into an untagged field
RecursesOffByOne(maxDepth, ft) == maxDepth >= 0 /\ isStruct(ft)

Recurses(maxDepth, ft) == maxDepth > 0 /\ isStruct(ft)

\* walkStruct(v, maxDepth) on a value v of struct type t.  ro is reflect's
\* flagStickyRO of v: v was reached through an unexported field that is not
\* embedded.  Value.Field(i) inherits flagStickyRO and not flagEmbedRO, so an
\* exported field of an embedded unexported struct can be set.
RECURSIVE walkFields(_, _, _, _, _, _)
walkFields(w, v, t, i, maxDepth, ro) ==
    IF i > Len(StructFields(t)) THEN v
    ELSE LET ft == StructFields(t)[i]
             fv == v[ft.name]
             stickyRO == ro \/ (~ft.exported /\ ~ft.embedded)
             embedRO == ~ft.exported /\ ft.embedded
             tag == ft.env
             envValue == getValueDefault(w, tag, ft.def)
             nv == IF tag = ""
                   THEN IF Recurses(maxDepth, ft)
                        THEN walkFields(w, fv, ft.type, 1, maxDepth - 1, stickyRO)
                        ELSE fv
                   ELSE IF envValue # <<>>
                        THEN setValue(w, fv, ft, ~(stickyRO \/ embedRO), envValue)
                        ELSE fv
         IN  walkFields(w, [v EXCEPT ![ft.name] = nv], t, i + 1, maxDepth, ro)

walkStruct(w, v, t, maxDepth, ro) == walkFields(w, v, t, 1, maxDepth, ro)

\* ApplyExternalConfig(&s, maxDepth) for s of struct type t: s afterwards
ApplyExternalConfig(w, s, t, maxDepth) == walkStruct(w, s, t, maxDepth, FALSE)


----------------------------------------------------------------------------
(* The configuration file and the logger's level *)

\* a JSON document for Configuration: per key, <<>> when the key is absent and
\* <<v>> when it is present with the string v
Doc(logLevelOpt, version, commit, branch, buildNumber) ==
    [log_level |-> logLevelOpt, version |-> version, commit |-> commit,
     branch |-> branch, build_number |-> buildNumber]

EmptyDoc == Doc(<<>>, <<>>, <<>>, <<>>, <<>>)

\* what ./config.json is: absent; a directory; a path os.Stat fails on for
\* another reason (permission denied on the directory, a symlink loop); a
\* file os.Open fails on; a file whose read fails; a file that is not JSON;
\* a file holding a JSON document
FileKinds == {"absent", "dir", "statErr", "openErr", "readErr", "invalid", "json"}

File(kind, doc) == [kind |-> kind, doc |-> doc]

\* json.Unmarshal(byteValue, &c): the keys present replace their fields, the
\* others keep their value; build's keys are those of the embedded buildData
Unmarshal(doc, c) ==
    LET put(opt, old) == IF opt = <<>> THEN old ELSE opt[1]
        b == c.Build.buildData
    IN  [LogLevel |-> put(doc.log_level, c.LogLevel),
         Build |-> [buildData |->
             [Version |-> put(doc.version, b.Version),
              Commit |-> put(doc.commit, b.Commit),
              Branch |-> put(doc.branch, b.Branch),
              BuildNumber |-> put(doc.build_number, b.BuildNumber)]]]

\* initFromConfigFile("./config.json"): whether it panicked, and
\* defaultConfiguration afterwards.  When os.Stat fails with an error that is
\* not ErrNotExist, stat is nil and stat.IsDir() dereferences it.
initFromConfigFile(f, c) ==
    CASE f.kind = "absent" -> [panic |-> FALSE, conf |-> c]
      [] f.kind = "statErr" -> [panic |-> TRUE, conf |-> c]
      [] f.kind = "dir" -> [panic |-> FALSE, conf |-> c]
      [] f.kind = "openErr" -> [panic |-> FALSE, conf |-> c]
      [] f.kind = "readErr" -> [panic |-> FALSE, conf |-> c]
      [] f.kind = "invalid" -> [panic |-> FALSE, conf |-> c]
      [] f.kind = "json" -> [panic |-> FALSE, conf |-> Unmarshal(f.doc, c)]

InitFromConfigFiles(f, c) == initFromConfigFile(f, c)

LowerSeq == <<"a", "b", "c", "d", "e", "f", "g", "h", "i", "j", "k", "l", "m",
              "n", "o", "p", "q", "r", "s", "t", "u", "v", "w", "x", "y", "z">>

UpperSeq == <<"A", "B", "C", "D", "E", "F", "G", "H", "I", "J", "K", "L", "M",
              "N", "O", "P", "Q", "R", "S", "T", "U", "V", "W", "X", "Y", "Z">>

\* bytes.ToUpper
ToUpper(s) ==
    [i \in 1..Len(s) |->
        IF s[i] \in Lower
        THEN UpperSeq[CHOOSE k \in 1..26 : LowerSeq[k] = s[i]]
        ELSE s[i]]

\* var level log.Level (INFO); level.UnmarshalText(text): the level afterwards
UnmarshalText(text) ==
    LET u == ToUpper(text) IN
    CASE u = <<"D", "E", "B", "U", "G">> -> "DEBUG"
      [] u = <<"I", "N", "F", "O">> \/ u = <<>> -> "INFO"
      [] u = <<"W", "A", "R", "N">> -> "WARN"
      [] u = <<"E", "R", "R", "O", "R">> -> "ERROR"
      [] u = <<"P", "A", "N", "I", "C">> -> "PANIC"
      [] u = <<"F", "A", "T", "A", "L">> -> "FATAL"
      [] OTHER -> "INFO"

\* the package's defaultConfiguration literal
BuiltinConfiguration ==
    [LogLevel |-> <<"I", "N", "F", "O">>,
     Build |-> [buildData |->
         [Version |-> <<"1", ".", "0", ".", "0">>, Commit |-> <<>>,
          Branch |-> <<>>, BuildNumber |-> <<>>]]]

\* the zero Configuration
ZeroConfiguration == NewRecord("Configuration", <<>>)

\* the depth Init walks to
InitMaxDepth == 4


----------------------------------------------------------------------------
(* Bounds and inputs *)

\* calls a behaviour makes at most
MaxOps == 3

\* the clock readings there are: 0..MaxNow
MaxNow == 1

V800 == <<"8", ".", "0", ".", "0">>
V700 == <<"7", ".", "0", ".", "0">>
V200 == <<"2", ".", "0", ".", "0">>
Vxe32sdf == <<"x", "e", "3", "2", "s", "d", "f">>
Yesterday == <<"{", "{", "d", "a", "t", "e", ":", "0", ",", "0", ",", "-", "1", "}", "}">>

NoValues == [k \in Keys |-> <<>>]

\* the environments a run starts in
Environments ==
    { NoValues,
      [NoValues EXCEPT ![BUILD_NUMBER] = V800],
      [NoValues EXCEPT ![VERSION] = <<"3">>, ![LOG_LEVEL] = <<"d", "e", "b", "u", "g">>],
      [NoValues EXCEPT ![BRANCH] = <<"o", "n", " ">> \o Yesterday] }

\* what ./config.json may be
Files ==
    { File(k, EmptyDoc) : k \in FileKinds \ {"json"} }
    \cup { File("json", Doc(<<>>, <<V200>>, <<>>, <<>>, <<>>)),
           File("json", Doc(<<<<"W", "A", "R", "N">>>>, <<>>, <<<<"a", "b", "c">>>>,
                            <<>>, <<<<"5">>>>)) }

\* the Defaults(Set(...), ...) an Init call may be given: key -> value
Options ==
    { <<>>,
      [k \in {BUILD_NUMBER} |-> V700],
      [k \in {BUILD_NUMBER} |-> <<>>],
      [k \in {VERSION, COMMIT} |-> IF k = VERSION THEN <<"9">> ELSE Vxe32sdf],
      [k \in {BRANCH} |-> Yesterday] }

\* what the application's own MapProvider holds
ExtraValues == [NoValues EXCEPT ![BUILD_NUMBER] = <<"6">>]

NoCall == [call |-> "none", arg |-> <<>>, ret |-> <<>>]

LastCall == [call |-> call, arg |-> arg, ret |-> ret]

----------------------------------------------------------------------------
(* The operations *)

\* ClearDataProviders()
ClearDataProviders ==
    /\ ~crashed /\ nops < MaxOps
    /\ dataProviders' = <<>>
    /\ log' = Append(log, <<"ClearDataProviders", "">>)
    /\ call' = "ClearDataProviders" /\ arg' = <<>> /\ ret' = <<>>
    /\ prev' = LastCall /\ nops' = nops + 1
    /\ UNCHANGED <<env, store, extra, defaultConfiguration, configurationData,
                   file, crashed, now, logLevel, sample, pre>>

\* the provider put first instead of last
PrependProvider(chain, p) == <<p>> \o chain

\* append(dataProviders, p)
AppendProvider(chain, p) == Append(chain, p)

\* AddDataProvider(p)
AddDataProvider(p) ==
    /\ ~crashed /\ nops < MaxOps
    /\ dataProviders' = AppendProvider(dataProviders, p)
    /\ log' = Append(log, <<"AddDataProvider", p>>)
    /\ call' = "AddDataProvider" /\ arg' = p /\ ret' = <<>>
    /\ prev' = LastCall /\ nops' = nops + 1
    /\ UNCHANGED <<env, store, extra, defaultConfiguration, configurationData,
                   file, crashed, now, logLevel, sample, pre>>

\* the map holding the options of this call alone
SetDefaultsAfresh(m, options) ==
    [k \in Keys |-> IF k \in DOMAIN options THEN options[k] ELSE <<>>]

\* the loop DefaultMapProvider.Set(key, value) over ops.DefaultValues
SetDefaults(m, options) ==
    [k \in Keys |-> IF k \in DOMAIN options THEN MapSet(m, k, options[k])[k] ELSE m[k]]

\* configurationData = defaultConfiguration
CopyDefault(c) == c

\* what the walk of Init(options) reads: the defaults are set before it runs
WalkWorldStale(options) == World

WalkWorld(options) == [World EXCEPT !.store = SetDefaults(store, options)]

\* the record Init(options) resolves: the walk runs on the copy of the default
\* record just loaded, with the defaults just set
Resolved(options) ==
    ApplyExternalConfig(WalkWorld(options),
        CopyDefault(InitFromConfigFiles(file, defaultConfiguration).conf),
        "Configuration", InitMaxDepth)

\* Init(Defaults(Set(k, v), ...)) for options = [k |-> v, ...]
Init(options) ==
    /\ ~crashed /\ nops < MaxOps
    /\ call' = "Init" /\ arg' = options /\ prev' = LastCall /\ nops' = nops + 1
    /\ pre' = defaultConfiguration
    /\ log' = Append(log, <<"Init", options>>)
    /\ UNCHANGED <<env, extra, dataProviders, file, now, sample>>
    /\ IF InitFromConfigFiles(file, defaultConfiguration).panic
       THEN /\ crashed' = TRUE
            /\ ret' = <<>>
            /\ UNCHANGED <<store, defaultConfiguration, configurationData, logLevel>>
       ELSE /\ crashed' = FALSE
            /\ defaultConfiguration' = InitFromConfigFiles(file, defaultConfiguration).conf
            /\ store' = SetDefaults(store, options)
            /\ configurationData' = Resolved(options)
            /\ logLevel' = UnmarshalText(configurationData'.LogLevel)
            /\ ret' = configurationData'

\* ApplyExternalConfig(Config(), 4): the application walks the resolved record again
Reapply ==
    /\ ~crashed /\ nops < MaxOps
    /\ call \in {"Init", "ApplyExternalConfig"}
    /\ configurationData' =
           ApplyExternalConfig(World, configurationData, "Configuration", InitMaxDepth)
    /\ call' = "ApplyExternalConfig" /\ arg' = InitMaxDepth /\ ret' = configurationData'
    /\ pre' = configurationData
    /\ prev' = LastCall /\ nops' = nops + 1
    /\ UNCHANGED <<env, store, extra, dataProviders, defaultConfiguration, file,
                   crashed, now, logLevel, sample, log>>

\* the wall clock advances
Tick ==
    /\ ~crashed /\ now < MaxNow
    /\ now' = now + 1
    /\ UNCHANGED <<env, store, extra, dataProviders, defaultConfiguration,
                   configurationData, file, crashed, logLevel, sample, log,
                   call, arg, ret, pre, prev, nops>>

\* the process starts: the package variables as initialised, in some
\* environment, with some ./config.json
Boot ==
    /\ env \in Environments
    /\ file \in Files
    /\ store = NoValues
    /\ extra = ExtraValues
    /\ dataProviders = InitialProviders
    /\ defaultConfiguration = BuiltinConfiguration
    /\ configurationData = ZeroConfiguration
    /\ crashed = FALSE
    /\ now = 0
    /\ logLevel = "INFO"
    /\ sample = <<>>
    /\ log = <<>>
    /\ call = "none" /\ arg = <<>> /\ ret = <<>> /\ pre = <<>>
    /\ prev = NoCall
    /\ nops = 0

Next ==
    \/ \E options \in Options : Init(options)
    \/ Reapply
    \/ \E p \in Providers : AddDataProvider(p)
    \/ ClearDataProviders
    \/ Tick

Spec == Boot /\ [][Next]_vars


----------------------------------------------------------------------------
(* Claims about Init, checked under Spec *)

\* the field of a Configuration that is bound to key k
BoundField(c, k) ==
    CASE k = LOG_LEVEL -> c.LogLevel
      [] k = VERSION -> c.Build.buildData.Version
      [] k = COMMIT -> c.Build.buildData.Commit
      [] k = BRANCH -> c.Build.buildData.Branch
      [] k = BUILD_NUMBER -> c.Build.buildData.BuildNumber

HasToken(v) == FindAllStringSubmatch(v, 1) # <<>>

\* r is v with its placeholders expanded at some reading of the clock so far
ExpandedFrom(v, r) == \E t \in 0..now : r = parseDateTimeString(t, v)

\* no value the resolution can read holds a placeholder token
NoTokens ==
    /\ \A k \in Keys : ~HasToken(env[k]) /\ ~HasToken(store[k]) /\ ~HasToken(extra[k])
    /\ \A k \in Keys : ~HasToken(BoundField(defaultConfiguration, k))

\* C2 (as claimed): Scenario A.  With the shipped Configuration type and the
\* built-in default record (version "1.0.0"), no config file, no VERSION in the
\* environment and no override stored for VERSION, Init returns a record whose
\* version is "1.0.0".
C2_ScenarioA ==
    ( /\ call = "Init" /\ ~crashed
      /\ dataProviders = InitialProviders
      /\ file.kind = "absent"
      /\ env[VERSION] = <<>> /\ store[VERSION] = <<>>
      /\ pre = BuiltinConfiguration )
    => BoundField(ret, VERSION) = <<"1", ".", "0", ".", "0">>

\* C4 (as claimed): whatever AddDataProvider, ClearDataProviders and Init
\* calls came before, an Init given Set(K, v), v non-empty, with no value for
\* K in the environment, returns a record whose field bound to K is v (its
\* placeholders expanded).
C4_OverridesAlwaysConsulted ==
    (call = "Init" /\ ~crashed)
    => \A k \in DOMAIN arg :
          (arg[k] # <<>> /\ env[k] = <<>>)
          => ExpandedFrom(arg[k], BoundField(ret, k))

\* the providers ahead of DefaultMapProvider in the chain
AheadOfDefaultMap ==
    LET at == CHOOSE i \in 1..Len(dataProviders) :
                  /\ dataProviders[i] = DefaultMapProvider
                  /\ \A j \in 1..(i - 1) : dataProviders[j] # DefaultMapProvider
    IN  {dataProviders[j] : j \in 1..(at - 1)}

\* C4 (amended): an Init given Set(K, v), v non-empty, returns a record whose
\* field bound to K is v (its placeholders expanded) whenever DefaultMapProvider
\* is in the chain and no provider ahead of it has a non-empty value for K.
C4_OverridesConsultedWhenInChain ==
    (call = "Init" /\ ~crashed)
    => \A k \in DOMAIN arg :
          ( /\ arg[k] # <<>>
            /\ \E i \in 1..Len(dataProviders) : dataProviders[i] = DefaultMapProvider
            /\ \A q \in AheadOfDefaultMap : Get(World, q, k) = <<>> )
          => ExpandedFrom(arg[k], BoundField(ret, k))

\* C4's case: the chain was cleared, DefaultMapProvider was added back, and
\* Init resolved the override it was given
C4_Witness ==
    /\ call = "Init" /\ ~crashed
    /\ dataProviders = <<DefaultMapProvider>>
    /\ BUILD_NUMBER \in DOMAIN arg
    /\ arg[BUILD_NUMBER] = V700
    /\ BoundField(ret, BUILD_NUMBER) = V700

\* C7: idempotence.  An Init given the options of the Init just before it, or
\* an ApplyExternalConfig of the record just resolved, with the chain, the
\* environment and the file unchanged and no placeholder token in any value,
\* returns a record equal to the one the run before returned.
C7_Idempotent ==
    /\ (call = "Init" /\ ~crashed /\ prev.call = "Init" /\ DOMAIN prev.arg = DOMAIN arg
        /\ NoTokens)
       => ((\A k \in DOMAIN arg : prev.arg[k] = arg[k]) => ret = prev.ret)
    /\ (call = "ApplyExternalConfig" /\ prev.call \in {"Init", "ApplyExternalConfig"}
        /\ NoTokens)
       => ret = prev.ret

\* C7's case: Init ran twice with the same override, on a loaded config file
C7_Witness ==
    /\ call = "Init" /\ ~crashed /\ prev.call = "Init"
    /\ DOMAIN arg = {BUILD_NUMBER} /\ DOMAIN prev.arg = {BUILD_NUMBER}
    /\ arg[BUILD_NUMBER] = V700 /\ prev.arg[BUILD_NUMBER] = V700
    /\ file.kind = "json" /\ NoTokens
    /\ BoundField(ret, BUILD_NUMBER) = V700

\* C8 (as claimed): whatever goes wrong with the configuration file path,
\* initFromConfigFile returns without aborting the process, the default record
\* keeps its built-in values and Init completes resolution against them.
C8_FileFailuresNonFatal ==
    (call = "Init" /\ file.kind \in FileKinds \ {"json"})
    => /\ ~crashed
       /\ defaultConfiguration = BuiltinConfiguration
       /\ \E t \in 0..now :
             ret = ApplyExternalConfig([World EXCEPT !.now = t], BuiltinConfiguration,
                                       "Configuration", InitMaxDepth)

\* the Init calls before the one just made, as positions in the log
EarlierInits == {i \in 1..(Len(log) - 1) : log[i][1] = "Init"}

\* the earlier Init calls that were given a Set for k
EarlierSets(k) == {i \in EarlierInits : k \in DOMAIN log[i][2]}

\* C12 (as claimed): with the default provider chain, once some Init call has
\* been given Set(K, v), v non-empty, every later Init call not itself given a
\* Set for K resolves the field bound to K to v (its placeholders expanded)
\* whenever the environment has no non-empty value for K.
C12_AnyEarlierOverrideKept ==
    (call = "Init" /\ ~crashed /\ dataProviders = InitialProviders)
    => \A k \in Keys \ DOMAIN arg : \A i \in EarlierSets(k) :
          (log[i][2][k] # <<>> /\ env[k] = <<>>)
          => ExpandedFrom(log[i][2][k], BoundField(ret, k))

\* C12 (amended): the overrides Init calls are given accumulate in the default
\* map, a later Set for a key replacing an earlier one.  With the default
\* provider chain, an Init call not itself given a Set for K resolves the field
\* bound to K to the value v of the most recent earlier Init call that was
\* given a Set for K (its placeholders expanded), whenever v is non-empty and
\* the environment has no non-empty value for K.
C12_LatestOverrideKept ==
    (call = "Init" /\ ~crashed /\ dataProviders = InitialProviders)
    => \A k \in Keys \ DOMAIN arg : \A i \in EarlierSets(k) :
          ( /\ \A j \in EarlierSets(k) : j <= i
            /\ log[i][2][k] # <<>> /\ env[k] = <<>> )
          => /\ store[k] = log[i][2][k]
             /\ ExpandedFrom(log[i][2][k], BoundField(ret, k))

\* C12's case: two Init calls after the one given Set(BUILD_NUMBER, "7.0.0"),
\* neither given a Set for BUILD_NUMBER, and a config file that has a build
\* number of its own; the last still resolves to "7.0.0"
C12_Witness ==
    /\ call = "Init" /\ ~crashed /\ dataProviders = InitialProviders
    /\ Len(log) = 3 /\ EarlierInits = {1, 2}
    /\ EarlierSets(BUILD_NUMBER) = {1} /\ log[1][2][BUILD_NUMBER] = V700
    /\ BUILD_NUMBER \notin DOMAIN arg
    /\ file.kind = "json" /\ file.doc.build_number # <<>>
    /\ env[BUILD_NUMBER] = <<>>
    /\ BoundField(ret, BUILD_NUMBER) = V700


----------------------------------------------------------------------------
(* The walker on its own: ApplyExternalConfig on a record of the application *)

\* walks a behaviour makes at most
MaxWalks == 2

WalkedTypes == {"Sample", "Configuration"}

\* the values the environment and the default map hold for the walk
WalkValues(S, v) == [k \in Keys |-> IF k \in S THEN v ELSE <<>>]

WalkKeySets == (SUBSET {VERSION, BUILD_NUMBER}) \cup {Keys}

\* ApplyExternalConfig(&sample, maxDepth)
Walk(maxDepth) ==
    /\ ~crashed /\ nops < MaxWalks
    /\ sample' = [sample EXCEPT
                    !.val = ApplyExternalConfig(World, sample.val, sample.type, maxDepth)]
    /\ call' = "ApplyExternalConfig" /\ arg' = maxDepth /\ ret' = <<>>
    /\ pre' = sample.val
    /\ prev' = LastCall /\ nops' = nops + 1
    /\ UNCHANGED <<env, store, extra, dataProviders, defaultConfiguration,
                   configurationData, file, crashed, now, logLevel, log>>

BootWalk ==
    /\ \E S \in WalkKeySets : env = WalkValues(S, <<"e">>)
    /\ \E S \in WalkKeySets : store = WalkValues(S, <<"m">>)
    /\ extra = ExtraValues
    /\ dataProviders \in {InitialProviders, <<>>,
                          <<ExtraMapProvider, EnvironmentProvider>>}
    /\ \E t \in WalkedTypes, fill \in {<<>>, <<"p">>} :
          sample = [type |-> t, val |-> NewRecord(t, fill)]
    /\ file = File("absent", EmptyDoc)
    /\ defaultConfiguration = BuiltinConfiguration
    /\ configurationData = ZeroConfiguration
    /\ crashed = FALSE
    /\ now = 0
    /\ logLevel = "INFO"
    /\ log = <<>>
    /\ call = "none" /\ arg = <<>> /\ ret = <<>> /\ pre = <<>>
    /\ prev = NoCall
    /\ nops = 0

NextWalk == \E maxDepth \in -1..MaxNest : Walk(maxDepth)

SpecWalk == BootWalk /\ [][NextWalk]_vars


----------------------------------------------------------------------------
(* Claims about the walker, checked under SpecWalk *)

\* the value C1 says a string field bound to key, with default literal def and
\* pre-walk value old, holds after a walk under the default chain
EnvThenMapThenDefault(key, def, old) ==
    IF env[key] # <<>> THEN env[key]
    ELSE IF store[key] # <<>> THEN store[key]
    ELSE IF def # <<>> THEN def
    ELSE old

\* C1: under the default chain [environment, default map] a settable string
\* field bound to K holds the environment's value of K if that is non-empty,
\* else the override stored for K if non-empty, else its default literal if
\* non-empty, else its pre-walk value.
C1_Precedence ==
    (call = "ApplyExternalConfig" /\ dataProviders = <<EnvironmentProvider, DefaultMapProvider>>)
    => \A i \in 1..Len(StructFields(sample.type)) :
          LET ft == StructFields(sample.type)[i] IN
          (ft.kind = "string" /\ ft.env # "" /\ ft.exported)
          => sample.val[ft.name] = EnvThenMapThenDefault(ft.env, ft.def, pre[ft.name])

\* C1's case: the environment and the default map both supply VERSION, and the
\* field holds the environment's value; nothing supplies BUILD_NUMBER, and that
\* field keeps its pre-walk value
C1_Witness ==
    /\ call = "ApplyExternalConfig" /\ sample.type = "Sample"
    /\ dataProviders = <<EnvironmentProvider, DefaultMapProvider>>
    /\ env[VERSION] = <<"e">> /\ store[VERSION] = <<"m">>
    /\ env[BUILD_NUMBER] = <<>> /\ store[BUILD_NUMBER] = <<>>
    /\ sample.val.Name = <<"e">>
    /\ pre.Number = <<"p">> /\ sample.val.Number = <<"p">>

\* the record at depth d >= 1 of a Sample: Child, Child.Next, Child.Next.Next...
RECURSIVE LevelAt(_, _)
LevelAt(r, d) == IF d = 1 THEN r.Child ELSE LevelAt(r, d - 1).Next

\* C6: after walk(record, maxDepth) the bound field of the nested record at
\* depth d is resolved when d <= maxDepth, and the whole record at depth d keeps
\* its pre-walk value when d > maxDepth.
C6_DepthBoundary ==
    (call = "ApplyExternalConfig" /\ sample.type = "Sample")
    => \A d \in 1..MaxNest :
          IF d <= arg
          THEN LevelAt(sample.val, d).Val =
                   getValueDefault(World, BUILD_NUMBER, LevelAt(pre, d).Val)
          ELSE LevelAt(sample.val, d) = LevelAt(pre, d)

\* C6's case: a walk to depth 2 resolved the record at depth 2 and left the one
\* at depth 3 as it was
C6_Witness ==
    /\ call = "ApplyExternalConfig" /\ sample.type = "Sample" /\ arg = 2
    /\ prev.call = "none"
    /\ LevelAt(pre, 2).Val = <<"p">> /\ LevelAt(sample.val, 2).Val = <<"e">>
    /\ LevelAt(pre, 3).Val = <<"p">> /\ LevelAt(sample.val, 3).Val = <<"p">>

\* Value.CanSet() of field ft of a struct whose flagStickyRO is ro
Writable(ft, ro) == ~ro /\ ft.exported

\* every field of b, of struct type t, that C10 says the walk leaves alone has
\* the value it has in a
RECURSIVE FrameKept(_, _, _, _)
FrameKept(a, b, t, ro) ==
    \A i \in 1..Len(StructFields(t)) :
       LET ft == StructFields(t)[i] IN
       /\ ((ft.env = "" /\ ft.kind # "struct") \/ ~Writable(ft, ro))
          => a[ft.name] = b[ft.name]
       /\ ft.kind = "struct"
          => FrameKept(a[ft.name], b[ft.name], ft.type, ro \/ (~ft.exported /\ ~ft.embedded))

\* C10 (as claimed): after ApplyExternalConfig every field with no bound key
\* that is not a nested record, and every field that is not writable, has its
\* pre-walk value.
C10_FrameAsClaimed ==
    call = "ApplyExternalConfig" => FrameKept(pre, sample.val, sample.type, FALSE)

\* as FrameKept, but an untagged embedded unexported record, itself not
\* writable, is not required to keep its value: its fields are judged one by one
RECURSIVE FrameKeptBelowEmbedded(_, _, _, _)
FrameKeptBelowEmbedded(a, b, t, ro) ==
    \A i \in 1..Len(StructFields(t)) :
       LET ft == StructFields(t)[i]
           descended == ft.env = "" /\ ft.kind = "struct" /\ ft.embedded
       IN
       /\ ((ft.env = "" /\ ft.kind # "struct") \/ (~Writable(ft, ro) /\ ~descended))
          => a[ft.name] = b[ft.name]
       /\ ft.kind = "struct"
          => FrameKeptBelowEmbedded(a[ft.name], b[ft.name], ft.type,
                                    ro \/ (~ft.exported /\ ~ft.embedded))

\* C10 (amended): after ApplyExternalConfig every field with no bound key that
\* is not a nested record has its pre-walk value, and so has every field that
\* is not writable, except an untagged embedded unexported record: the walk
\* descends into it and resolves its exported bound fields.
C10_Frame ==
    call = "ApplyExternalConfig"
    => FrameKeptBelowEmbedded(pre, sample.val, sample.type, FALSE)

\* C10's case: every key has a value; the untagged Note, the unexported secret
\* and the record behind the unexported inner keep their values, and the field
\* of the embedded unexported base is resolved
C10_Witness ==
    /\ call = "ApplyExternalConfig" /\ sample.type = "Sample" /\ prev.call = "none"
    /\ dataProviders = InitialProviders
    /\ \A k \in Keys : env[k] = <<"e">>
    /\ pre.Note = <<"p">> /\ sample.val.Note = <<"p">>
    /\ sample.val.secret = <<"p">>
    /\ sample.val.inner.Tag = <<"p">>
    /\ pre.base.ID = <<"p">> /\ sample.val.base.ID = <<"e">>


----------------------------------------------------------------------------
(* The provider chain on its own *)

\* getValueDefault(key, envDefault), called by the application's code
Lookup(key, envDefault) ==
    /\ ~crashed
    /\ call' = "getValueDefault" /\ arg' = <<key, envDefault>>
    /\ ret' = getValueDefault(World, key, envDefault)
    /\ UNCHANGED <<env, store, extra, dataProviders, defaultConfiguration,
                   configurationData, file, crashed, now, logLevel, sample, log,
                   pre, prev, nops>>

BootChain ==
    /\ env \in {NoValues, [NoValues EXCEPT ![BUILD_NUMBER] = V800]}
    /\ store \in {NoValues, [NoValues EXCEPT ![BUILD_NUMBER] = V700]}
    /\ extra \in {NoValues, ExtraValues}
    /\ dataProviders = InitialProviders
    /\ file = File("absent", EmptyDoc)
    /\ defaultConfiguration = BuiltinConfiguration
    /\ configurationData = ZeroConfiguration
    /\ crashed = FALSE
    /\ now = 0
    /\ logLevel = "INFO"
    /\ sample = <<>>
    /\ log = <<>>
    /\ call = "none" /\ arg = <<>> /\ ret = <<>> /\ pre = <<>>
    /\ prev = NoCall
    /\ nops = 0

NextChain ==
    \/ \E p \in Providers : AddDataProvider(p)
    \/ ClearDataProviders
    \/ \E key \in {BUILD_NUMBER, VERSION}, d \in {<<>>, <<"d">>} : Lookup(key, d)

SpecChain == BootChain /\ [][NextChain]_vars

\* the index of the last ClearDataProviders in the calls made (0: none)
LastClear ==
    IF \E i \in 1..Len(log) : log[i][1] = "ClearDataProviders"
    THEN CHOOSE i \in 1..Len(log) :
             /\ log[i][1] = "ClearDataProviders"
             /\ \A j \in (i + 1)..Len(log) : log[j][1] # "ClearDataProviders"
    ELSE 0

\* the providers added after the last clear, in the order they were added
RECURSIVE AddedFrom(_)
AddedFrom(i) ==
    IF i > Len(log) THEN <<>>
    ELSE (IF log[i][1] = "AddDataProvider" THEN <<log[i][2]>> ELSE <<>>)
         \o AddedFrom(i + 1)

\* the indices of the chain whose provider has a non-empty value for key
Supplying(key) ==
    {i \in 1..Len(dataProviders) : Get(World, dataProviders[i], key) # <<>>}

\* C5: the chain is the providers present since the last clear (the initial
\* two if there was none) followed by those added since, in the order added;
\* getValueDefault(key, d) returns the value of the earliest provider of the
\* chain whose value for key is non-empty, and d when there is none, so d for
\* every key right after ClearDataProviders.
C5_Chain ==
    /\ dataProviders =
          (IF LastClear = 0 THEN <<EnvironmentProvider, DefaultMapProvider>> ELSE <<>>)
          \o AddedFrom(LastClear + 1)
    /\ call = "getValueDefault"
       => IF Supplying(arg[1]) = {}
          THEN ret = arg[2]
          ELSE \E i \in Supplying(arg[1]) :
                  /\ \A j \in Supplying(arg[1]) : i <= j
                  /\ ret = Get(World, dataProviders[i], arg[1])
    /\ (call = "getValueDefault" /\ log # <<>>
        /\ log[Len(log)][1] = "ClearDataProviders")
       => ret = arg[2]

\* C5's case: after a clear, the application's provider and then the
\* environment were added; both supply the key and the first added wins
C5_Witness ==
    /\ log = << <<"ClearDataProviders", "">>, <<"AddDataProvider", ExtraMapProvider>>,
                <<"AddDataProvider", EnvironmentProvider>> >>
    /\ call = "getValueDefault" /\ arg = <<BUILD_NUMBER, <<"d">> >>
    /\ env[BUILD_NUMBER] = V800 /\ extra[BUILD_NUMBER] = <<"6">>
    /\ ret = <<"6">>


----------------------------------------------------------------------------
(* The run-once program *)

\* the Defaults main passes to Init
MainOptions == [k \in {COMMIT} |-> Vxe32sdf]

\* main, run with -build_number buildNumber ("" when the flag is not given):
\* Init, the flag written over the resolved record, the record printed
main(buildNumber) ==
    /\ call = "none"
    /\ call' = "main" /\ arg' = buildNumber /\ prev' = LastCall /\ nops' = nops + 1
    /\ pre' = defaultConfiguration
    /\ log' = Append(log, <<"Init", MainOptions>>)
    /\ UNCHANGED <<env, extra, dataProviders, file, now, sample>>
    /\ IF InitFromConfigFiles(file, defaultConfiguration).panic
       THEN /\ crashed' = TRUE
            /\ ret' = <<>>
            /\ UNCHANGED <<store, defaultConfiguration, configurationData, logLevel>>
       ELSE /\ crashed' = FALSE
            /\ defaultConfiguration' = InitFromConfigFiles(file, defaultConfiguration).conf
            /\ store' = SetDefaults(store, MainOptions)
            /\ configurationData' =
                   IF buildNumber # <<>>
                   THEN [Resolved(MainOptions) EXCEPT
                            !.Build.buildData.BuildNumber = buildNumber]
                   ELSE Resolved(MainOptions)
            /\ logLevel' = UnmarshalText(Resolved(MainOptions).LogLevel)
            /\ ret' = configurationData'

\* the environments run-once is started in
MainEnvironments ==
    Environments
    \cup { [NoValues EXCEPT ![COMMIT] = <<"c", "1">>],
           [NoValues EXCEPT ![BUILD_NUMBER] = V800, ![VERSION] = <<"3">>] }

BootMain ==
    /\ env \in MainEnvironments
    /\ file \in Files
    /\ store = NoValues
    /\ extra = ExtraValues
    /\ dataProviders = InitialProviders
    /\ defaultConfiguration = BuiltinConfiguration
    /\ configurationData = ZeroConfiguration
    /\ crashed = FALSE
    /\ now = 0
    /\ logLevel = "INFO"
    /\ sample = <<>>
    /\ log = <<>>
    /\ call = "none" /\ arg = <<>> /\ ret = <<>> /\ pre = <<>>
    /\ prev = NoCall
    /\ nops = 0

NextMain == \E buildNumber \in {<<>>, V700} : main(buildNumber)

SpecMain == BootMain /\ [][NextMain]_vars

\* what config.json supplies for key k: "" when there is no readable document
\* or the document has no such key
FromFile(k) ==
    LET opt == CASE k = LOG_LEVEL -> file.doc.log_level
                 [] k = VERSION -> file.doc.version
                 [] k = COMMIT -> file.doc.commit
                 [] k = BRANCH -> file.doc.branch
                 [] k = BUILD_NUMBER -> file.doc.build_number
    IN  IF file.kind = "json" /\ opt # <<>> THEN opt[1] ELSE <<>>

\* the built-in default of key k, read the way that favours the claim: what
\* run-once resolves with no config.json, no environment and no flag, which is
\* the default main passes (COMMIT), else the field's default literal
\* (VERSION), else the defaultConfiguration literal
Builtin(k) ==
    IF k \in DOMAIN MainOptions THEN MainOptions[k]
    ELSE IF k = VERSION THEN buildDataFields[1].def
    ELSE BoundField(BuiltinConfiguration, k)

\* the value of the latest source, in the order built-in default, config.json,
\* environment, flag, that supplies key k
LatestSource(k, buildNumber) ==
    IF k = BUILD_NUMBER /\ buildNumber # <<>> THEN buildNumber
    ELSE IF env[k] # <<>> THEN env[k]
    ELSE IF FromFile(k) # <<>> THEN FromFile(k)
    ELSE Builtin(k)

\* C3 (as claimed): run-once applies the built-in defaults, config.json, the
\* environment and the flags in that order, each overriding the ones before:
\* every field ends with the value of the latest source that supplies it (its
\* placeholders expanded).
C3_LoadingOrder ==
    (call = "main" /\ ~crashed)
    => \A k \in Keys : ExpandedFrom(LatestSource(k, arg), BoundField(ret, k))


----------------------------------------------------------------------------
(* The placeholder expander on its own *)

\* the offsets a token is written with at most
MaxSegs == 4

DateUnit == <<"d", "a", "t", "e">>
TimeUnit == <<"t", "i", "m", "e">>

\* the units and the offset texts tokens are written with
Units == {DateUnit, TimeUnit, <<"d", "a", "y">>, <<>>}

SegTexts == {<<>>, <<"-">>, <<"-", "2">>, <<"+", "1">>, <<"x">>}

RECURSIVE Join(_, _)
Join(segs, k) ==
    IF k > Len(segs) THEN <<>>
    ELSE (IF k > 1 THEN <<",">> ELSE <<>>) \o segs[k] \o Join(segs, k + 1)

\* the text {{unit:seg,seg,...}}
TokenText(unit, segs) ==
    <<"{", "{">> \o unit \o <<":">> \o Join(segs, 1) \o <<"}", "}">>

\* a well-formed token that follows the token under test in some inputs
Companion == TokenText(TimeUnit, <<<<"1">>, <<>>, <<"-", "2">>>>)

\* the strings given to the expander: "on ", a token, and nothing or Companion
ExpandInputs ==
    { [unit |-> u, segs |-> sg, after |-> a] :
        u \in Units,
        sg \in UNION { [1..n -> SegTexts] : n \in 2..MaxSegs },
        a \in {<<>>, Companion} }

InputText(in) == <<"o", "n", " ">> \o TokenText(in.unit, in.segs) \o in.after

\* parseDateTimeString(data), on one input a behaviour
Expand(in) ==
    /\ call = "none"
    /\ call' = "parseDateTimeString" /\ arg' = in
    /\ ret' = parseDateTimeString(now, InputText(in))
    /\ UNCHANGED <<env, store, extra, dataProviders, defaultConfiguration,
                   configurationData, file, crashed, now, logLevel, sample, log,
                   pre, prev, nops>>

BootExpand ==
    /\ env = NoValues
    /\ store = NoValues
    /\ extra = NoValues
    /\ dataProviders = InitialProviders
    /\ file = File("absent", EmptyDoc)
    /\ defaultConfiguration = BuiltinConfiguration
    /\ configurationData = ZeroConfiguration
    /\ crashed = FALSE
    /\ now \in 0..MaxNow
    /\ logLevel = "INFO"
    /\ sample = <<>>
    /\ log = <<>>
    /\ call = "none" /\ arg = <<>> /\ ret = <<>> /\ pre = <<>>
    /\ prev = NoCall
    /\ nops = 0

NextExpand == \E in \in ExpandInputs : Expand(in)

SpecExpand == BootExpand /\ [][NextExpand]_vars

\* sub occurs in s
Contains(s, sub) ==
    \E i \in 1..(Len(s) - Len(sub) + 1) : SubSeq(s, i, i + Len(sub) - 1) = sub

\* an optionally signed base-10 integer
IsInteger(seg) ==
    LET body == IF At(seg, 1) \in {"+", "-"} THEN Tail(seg) ELSE seg
    IN  body # <<>> /\ \A i \in 1..Len(body) : body[i] \in Digits

\* a token as C9 describes the well-formed ones: the unit date or time and
\* exactly three offsets, each empty or an optionally signed integer
WellFormedAsClaimed(unit, segs) ==
    /\ unit \in {DateUnit, TimeUnit}
    /\ Len(segs) = 3
    /\ \A k \in 1..3 : segs[k] = <<>> \/ IsInteger(segs[k])

\* C9 (as claimed): every token that is not the unit date or time followed by
\* exactly three offsets, each empty or an optionally signed integer, is left
\* verbatim, and a well-formed token in the same string is still expanded.
C9_MalformedLeftVerbatim ==
    call = "parseDateTimeString"
    => /\ ~WellFormedAsClaimed(arg.unit, arg.segs)
          => Contains(ret, TokenText(arg.unit, arg.segs))
       /\ arg.after = Companion
          => /\ ~Contains(ret, Companion)
             /\ Contains(ret, FormatOffset("time", now, <<1, 0, -2>>))


\* an offset as the pattern takes it: an optional "-" and then digits, if any
IsOffset(seg) ==
    LET body == IF At(seg, 1) = "-" THEN Tail(seg) ELSE seg
    IN  \A i \in 1..Len(body) : body[i] \in Digits

\* the unit date or time and exactly three offsets
WellFormed(unit, segs) ==
    /\ unit \in {DateUnit, TimeUnit}
    /\ Len(segs) = 3
    /\ \A k \in 1..3 : IsOffset(segs[k])

\* C9 (amended): every token that is not the unit date or time followed by
\* exactly three offsets, each an optional "-" and then zero or more digits, is
\* left verbatim; the others are expanded, an offset without digits (empty, or
\* a lone "-") counting as zero; a well-formed token in the same string is
\* expanded either way.
C9_Verbatim ==
    call = "parseDateTimeString"
    => /\ ~WellFormed(arg.unit, arg.segs)
          => Contains(ret, TokenText(arg.unit, arg.segs))
       /\ WellFormed(arg.unit, arg.segs)
          => /\ ~Contains(ret, TokenText(arg.unit, arg.segs))
             /\ Contains(ret, FormatOffset(IF arg.unit = DateUnit THEN "date" ELSE "time",
                                 now, [k \in 1..3 |-> ParseInt(arg.segs[k]).val]))
       /\ arg.after = Companion
          => /\ ~Contains(ret, Companion)
             /\ Contains(ret, FormatOffset("time", now, <<1, 0, -2>>))

\* C9's case: a token with a "+" offset is left verbatim and the well-formed
\* token after it is expanded
C9_Witness ==
    /\ call = "parseDateTimeString"
    /\ arg.unit = DateUnit /\ arg.segs = << <<"+", "1">>, <<>>, <<"-", "2">> >>
    /\ arg.after = Companion
    /\ ret = <<"o", "n", " ">> \o TokenText(arg.unit, arg.segs)
             \o FormatOffset("time", now, <<1, 0, -2>>)

----------------------------------------------------------------------------
(* The coercion registry on its own: a raw string applied to an integer field *)

\* raw strings a behaviour applies at most
MaxCoerce == 2

\* the raw strings applied: integers inside and outside the narrow widths,
\* signed both ways, and text that is not an integer
RawStrings ==
    { <<"0">>, <<"7">>, <<"-", "1">>, <<"+", "5">>,
      <<"1", "2", "7">>, <<"1", "2", "8">>, <<"-", "1", "2", "8">>,
      <<"-", "1", "2", "9">>, <<"2", "5", "5">>, <<"3", "0", "0">>,
      <<"3", "2", "7", "6", "8">>, <<"6", "5", "5", "3", "6">>,
      <<"7", "0", "0", "0", "0">>,
      <<>>, <<"-">>, <<"a", "b", "c">>, <<"1", "x">>, <<"1", ".", "5">> }

\* setValue(field, fieldType, s) on a settable integer field: setters[kind]
Coerce(s) ==
    /\ ~crashed /\ nops < MaxCoerce
    /\ sample' = [sample EXCEPT
                    !.val = setValue(World, sample.val, [kind |-> sample.type], TRUE, s)]
    /\ call' = "setter" /\ arg' = s /\ ret' = <<>>
    /\ pre' = sample.val
    /\ prev' = LastCall /\ nops' = nops + 1
    /\ UNCHANGED <<env, store, extra, dataProviders, defaultConfiguration,
                   configurationData, file, crashed, now, logLevel, log>>

BootCoerce ==
    /\ env = NoValues /\ store = NoValues /\ extra = ExtraValues
    /\ dataProviders = InitialProviders
    /\ \E kind \in IntKinds \cup UintKinds, prior \in {0, 5} :
          sample = [type |-> kind, val |-> prior]
    /\ file = File("absent", EmptyDoc)
    /\ defaultConfiguration = BuiltinConfiguration
    /\ configurationData = ZeroConfiguration
    /\ crashed = FALSE
    /\ now = 0
    /\ logLevel = "INFO"
    /\ log = <<>>
    /\ call = "none" /\ arg = <<>> /\ ret = <<>> /\ pre = <<>>
    /\ prev = NoCall
    /\ nops = 0

NextCoerce == \E s \in RawStrings : Coerce(s)

SpecCoerce == BootCoerce /\ [][NextCoerce]_vars

----------------------------------------------------------------------------
(* Claims about the coercion registry, checked under SpecCoerce *)

\* s is a base-10 integer for a field of this kind: digits, after an optional
\* sign when the kind is signed
IsBase10(kind, s) ==
    LET body == IF kind \in IntKinds /\ At(s, 1) \in {"+", "-"} THEN Tail(s) ELSE s
    IN  body # <<>> /\ \A i \in 1..Len(body) : body[i] \in Digits

\* the integer a base-10 string denotes
Base10Value(s) ==
    CASE At(s, 1) = "-" -> 0 - DigitsValue(Tail(s), 0)
      [] At(s, 1) = "+" -> DigitsValue(Tail(s), 0)
      [] OTHER -> DigitsValue(s, 0)

\* C11 (as claimed): after the registry applies a raw string s to an integer
\* field of any supported width, the field holds exactly the integer s denotes
\* when s parses as a base-10 integer, and its prior value otherwise.
C11_ExactOrPrior ==
    call = "setter"
    => sample.val = (IF IsBase10(sample.type, arg) THEN Base10Value(arg) ELSE pre)

====
